---- MODULE Spec2Model ----
(***************************************************************************)
(* Sol Launchpad: the token-creation page (Home component: form,          *)
(* validateForm, uploadMetadata, createToken, wallet balance effect) and  *)
(* the /api/upload route handler (POST, uploadFileToPinata,               *)
(* uploadJsonToPinata, getPinataAuthHeaders).                             *)
(*                                                                         *)
(* Text is modelled as a sequence of one-character strings, so that trim, *)
(* length, character-class tests and upper-casing are computed and not    *)
(* assumed.                                                                *)
(***************************************************************************)
EXTENDS Integers, Sequences, FiniteSets, TLC

\* ------------------------------------------------------------------ text

Lower == <<"a","b","c","d","e","f","g","h","i","j","k","l","m",
           "n","o","p","q","r","s","t","u","v","w","x","y","z">>

Upper == <<"A","B","C","D","E","F","G","H","I","J","K","L","M",
           "N","O","P","Q","R","S","T","U","V","W","X","Y","Z">>

Digits == <<"0","1","2","3","4","5","6","7","8","9">>

Range(s) == {s[i] : i \in DOMAIN s}

\* Characters outside ASCII, each named by its code point: e with acute
\* (small and capital) and the dotless i, a letter whose upper case is the
\* ASCII letter I; the no-break space, which \s matches and trim() strips.
SmallEAcute == "U+00E9"

CapitalEAcute == "U+00C9"

DotlessI == "U+0131"

NoBreakSpace == "U+00A0"

\* \s of a JavaScript regular expression and the characters trim() strips
\* (the ones the inputs of this model use).
Whitespace == {" ", "\t", "\n", NoBreakSpace}

IsDigit(c) == c \in Range(Digits)

IsLetter(c) == c \in Range(Lower) \cup Range(Upper)

\* String.prototype.toUpperCase, one character.
UpperChar(c) ==
    IF c \in Range(Lower)
    THEN Upper[CHOOSE i \in DOMAIN Lower : Lower[i] = c]
    ELSE IF c = SmallEAcute THEN CapitalEAcute
    ELSE IF c = DotlessI THEN "I"
    ELSE c

ToUpperCase(s) == [i \in DOMAIN s |-> UpperChar(s[i])]

RECURSIVE TrimStart(_)
TrimStart(s) ==
    IF s # <<>> /\ Head(s) \in Whitespace THEN TrimStart(Tail(s)) ELSE s

RECURSIVE TrimEnd(_)
TrimEnd(s) ==
    IF s # <<>> /\ s[Len(s)] \in Whitespace
    THEN TrimEnd(SubSeq(s, 1, Len(s) - 1))
    ELSE s

\* String.prototype.trim
Trim(s) == TrimEnd(TrimStart(s))

\* /^\d+$/.test(s)
AllDigits(s) == s # <<>> /\ \A i \in DOMAIN s : IsDigit(s[i])

DigitVal(c) == (CHOOSE i \in DOMAIN Digits : Digits[i] = c) - 1

RECURSIVE StripZeros(_)
StripZeros(s) ==
    IF Len(s) > 1 /\ Head(s) = "0" THEN StripZeros(Tail(s)) ELSE s

RECURSIVE LexLeq(_, _)
LexLeq(a, b) ==
    IF a = <<>> THEN TRUE
    ELSE IF DigitVal(Head(a)) < DigitVal(Head(b)) THEN TRUE
    ELSE IF DigitVal(Head(a)) > DigitVal(Head(b)) THEN FALSE
    ELSE LexLeq(Tail(a), Tail(b))

\* BigInt(a) <= BigInt(b) for two strings of decimal digits, compared
\* digit by digit (the values exceed the integers of the model checker).
BigLeq(a, b) ==
    LET x == StripZeros(a)
        y == StripZeros(b)
    IN  IF Len(x) # Len(y) THEN Len(x) < Len(y) ELSE LexLeq(x, y)

\* BigInt(s) <= 0n for a string of decimal digits.
BigIsZero(s) == \A i \in DOMAIN s : s[i] = "0"

U64_MAX == <<"1","8","4","4","6","7","4","4","0","7","3","7","0","9","5","5","1","6","1","5">>

RECURSIVE DecValue(_)
DecValue(s) ==
    IF s = <<>> THEN 0
    ELSE 10 * DecValue(SubSeq(s, 1, Len(s) - 1)) + DigitVal(s[Len(s)])

\* Number(s) for the decimal literals: surrounding whitespace is ignored,
\* empty text is 0, an optional sign, digits with an optional fraction;
\* anything else is NaN.  (Hexadecimal, exponent and Infinity literals are
\* outside the inputs of this model.)  The result is the pair of what
\* validateForm reads: isNaN / Number.isInteger, and the integer value.
Number(s) ==
    LET t    == Trim(s)
        neg  == t # <<>> /\ Head(t) = "-"
        u    == IF t # <<>> /\ Head(t) \in {"-", "+"} THEN Tail(t) ELSE t
        dots == {i \in DOMAIN u : u[i] = "."}
        ip   == IF dots = {} THEN u
                ELSE SubSeq(u, 1, (CHOOSE i \in dots : TRUE) - 1)
        fp   == IF dots = {} THEN <<>>
                ELSE SubSeq(u, (CHOOSE i \in dots : TRUE) + 1, Len(u))
        wellFormed ==
            /\ Cardinality(dots) <= 1
            /\ ip \o fp # <<>>
            /\ \A i \in DOMAIN ip : IsDigit(ip[i])
            /\ \A i \in DOMAIN fp : IsDigit(fp[i])
    IN  IF t = <<>> THEN [nan |-> FALSE, int |-> TRUE, val |-> 0]
        ELSE IF ~wellFormed THEN [nan |-> TRUE, int |-> FALSE, val |-> 0]
        ELSE [nan |-> FALSE,
              int |-> \A i \in DOMAIN fp : fp[i] = "0",
              val |-> IF neg THEN 0 - DecValue(ip) ELSE DecValue(ip)]

\* ------------------------------------------------------- form validation

MAX_NAME_LENGTH == 32

MAX_SYMBOL_LENGTH == 10

MAX_DESCRIPTION_LENGTH == 200

MAX_IMAGE_SIZE_BYTES == 5 * 1024 * 1024

ValidTypes == {"image/jpeg", "image/png", "image/gif", "image/webp"}

\* File | null: present = FALSE is null.
NoFile == [present |-> FALSE, size |-> 0, type |-> ""]

\* The key order of the FormErrors object validateForm builds.
ErrorFields == <<"name", "symbol", "decimals", "supply", "description", "image">>

\* An absent key of a FormErrors object reads as undefined.
Undefined == "undefined"

\* /^[a-zA-Z0-9\s\-_]+$/.test(s)
NameCharsOk(s) ==
    /\ s # <<>>
    /\ \A i \in DOMAIN s :
          IsLetter(s[i]) \/ IsDigit(s[i]) \/ s[i] \in Whitespace \/ s[i] \in {"-", "_"}

\* /^[A-Z0-9]+$/.test(s)
SymbolCharsOk(s) ==
    /\ s # <<>>
    /\ \A i \in DOMAIN s : s[i] \in Range(Upper) \/ IsDigit(s[i])

NameError(form) ==
    IF Trim(form.name) = <<>> THEN "Token name is required"
    ELSE IF Len(form.name) > MAX_NAME_LENGTH THEN "Name must be 32 characters or less"
    ELSE IF ~NameCharsOk(form.name)
    THEN "Name can only contain letters, numbers, spaces, hyphens, and underscores"
    ELSE Undefined

SymbolError(form) ==
    IF Trim(form.symbol) = <<>> THEN "Token symbol is required"
    ELSE IF Len(form.symbol) > MAX_SYMBOL_LENGTH THEN "Symbol must be 10 characters or less"
    ELSE IF ~SymbolCharsOk(ToUpperCase(form.symbol))
    THEN "Symbol can only contain letters and numbers"
    ELSE Undefined

DecimalsError(form) ==
    LET decimals == Number(form.decimals)
    IN  IF decimals.nan \/ ~decimals.int THEN "Decimals must be a whole number"
        ELSE IF decimals.val < 0 \/ decimals.val > 9 THEN "Decimals must be between 0 and 9"
        ELSE Undefined

SupplyError(form) ==
    LET t == Trim(form.supply)
    IN  IF t = <<>> THEN "Supply is required"
        ELSE IF ~AllDigits(t) THEN "Supply must be a whole number"
        ELSE IF BigIsZero(t) THEN "Supply must be greater than 0"
        ELSE IF ~BigLeq(t, U64_MAX) THEN "Supply exceeds maximum allowed value"
        ELSE Undefined

DescriptionError(form) ==
    IF Len(form.description) > MAX_DESCRIPTION_LENGTH
    THEN "Description must be 200 characters or less"
    ELSE Undefined

\* The second test overwrites the message of the first.
ImageError_SizeOnly(imageFile) ==
    IF ~imageFile.present THEN Undefined
    ELSE IF imageFile.size > MAX_IMAGE_SIZE_BYTES THEN "Image must be 5MB or less"
    ELSE Undefined

ImageError(imageFile) ==
    IF ~imageFile.present THEN Undefined
    ELSE IF imageFile.type \notin ValidTypes THEN "Image must be JPEG, PNG, GIF, or WebP"
    ELSE IF imageFile.size > MAX_IMAGE_SIZE_BYTES THEN "Image must be 5MB or less"
    ELSE Undefined

\* validateForm: the FormErrors object, as a function of every field name;
\* a key the code does not set reads Undefined.
validateForm(form, imageFile) ==
    [f \in Range(ErrorFields) |->
        CASE f = "name"        -> NameError(form)
          [] f = "symbol"      -> SymbolError(form)
          [] f = "decimals"    -> DecimalsError(form)
          [] f = "supply"      -> SupplyError(form)
          [] f = "description" -> DescriptionError(form)
          [] f = "image"       -> ImageError(imageFile)]

\* Object.keys(errors)
ErrorKeys(errors) == {f \in Range(ErrorFields) : errors[f] # Undefined}

\* Object.values(errors)[0]
FirstError(errors) ==
    errors[ErrorFields[CHOOSE i \in DOMAIN ErrorFields :
        /\ errors[ErrorFields[i]] # Undefined
        /\ \A j \in 1..(i - 1) : errors[ErrorFields[j]] = Undefined]]

NoErrors == [f \in Range(ErrorFields) |-> Undefined]

\* ------------------------------------------------------------ the page

VARIABLES
    publicKey,      \* useWallet().publicKey; NoKey is null
    form,           \* LaunchForm
    formErrors,     \* FormErrors
    status,         \* status message
    statusType,     \* "info" | "success" | "error"
    mintAddress,    \* "" is 0, else the mint created by a run
    tokenAccount,   \* "" is 0, else the associated token account of that mint
    isLaunching,
    imageFile,
    isUploading,
    currentStep,
    walletBalance,  \* in lamports (the page divides by LAMPORTS_PER_SOL); Null is null
    run,            \* the latest createToken invocation: where it awaits, what it captured
    upload,         \* the latest uploadMetadata invocation
    reads,          \* balance reads in flight (updateBalance, refreshBalance)
    subscribed      \* the balance effect holds an account-change subscription

pageVars == <<publicKey, form, formErrors, status, statusType, mintAddress,
              tokenAccount, isLaunching, imageFile, isUploading, currentStep,
              walletBalance, run, upload, reads, subscribed>>

NoKey == "null"

Null == -1

\* Wallet keys a user can connect with.
Wallets == {"K1"}

\* Accounts the connected wallet can switch to.
Accounts == {"K1", "K2"}

\* Names for the keypairs of Keypair.generate(): a new keypair differs from
\* the one the page still displays, which is all that tells mints apart.
Mints == {1, 2, 3}

\* Number of updateBalance reads that may be in flight when a poll starts.
MaxReads == 1

Tok == <<"T", "o", "k">>

Sym == <<"T", "K">>

DefaultSupply == <<"1","0","0","0","0","0","0","0","0","0">>

DEFAULT_FORM ==
    [name |-> <<>>, symbol |-> <<>>, decimals |-> <<"9">>, supply |-> DefaultSupply,
     description |-> <<>>, metadataUrl |-> <<>>, website |-> <<>>, twitter |-> <<>>,
     telegram |-> <<>>]

\* What the user types into the inputs: <<field, text>>.
Typed ==
    { <<"name", Tok>>, <<"symbol", <<"t", "k">> >> }

\* Files the user selects.
Files ==
    { [present |-> TRUE, size |-> MAX_IMAGE_SIZE_BYTES, type |-> "image/png"],
      [present |-> TRUE, size |-> MAX_IMAGE_SIZE_BYTES + 1, type |-> "image/png"],
      [present |-> TRUE, size |-> MAX_IMAGE_SIZE_BYTES, type |-> "image/svg+xml"] }

\* Lamports an account read reports.
Lamports == {13640000, 13640001}

\* Values a rejected promise carries: Error objects and one non-Error value.
Thrown ==
    { [isError |-> TRUE, message |-> "User rejected the request."],
      [isError |-> FALSE, message |-> "rejected"] }

\* The metadata URL the upload route answers with.
Uri == <<"u", "r", "i">>

\* Responses of fetch("/api/upload"): ok, whether the body parses as JSON,
\* and the error / metadataUrl members of the parsed body.
Responses ==
    { [ok |-> TRUE,  parses |-> TRUE,  error |-> "", metadataUrl |-> Uri],
      [ok |-> FALSE, parses |-> TRUE,  error |-> "Failed to upload image to IPFS",
       metadataUrl |-> <<>>],
      [ok |-> FALSE, parses |-> FALSE, error |-> "", metadataUrl |-> <<>>] }

\* ESTIMATED_COSTS, in lamports.
ESTIMATED_COSTS ==
    [mintAccount |-> 1450000, tokenAccount |-> 2040000,
     metadataAccount |-> 10000000, transactions |-> 150000]

\* The double 0.00145 + 0.00204 + 0.01 + 0.00015 is 0.013640000000000001 SOL:
\* more than 13640000 lamports and less than 13640001.  This is the number of
\* whole lamports in it.
TOTAL_ESTIMATED_COST ==
    ESTIMATED_COSTS.mintAccount + ESTIMATED_COSTS.tokenAccount +
    ESTIMATED_COSTS.metadataAccount + ESTIMATED_COSTS.transactions

\* walletBalance !== null && walletBalance < TOTAL_ESTIMATED_COST, on a
\* balance of whole lamports (see TOTAL_ESTIMATED_COST).
InsufficientBalance_Inverted(balance) ==
    balance # Null /\ balance > TOTAL_ESTIMATED_COST

InsufficientBalance(balance) ==
    balance # Null /\ balance <= TOTAL_ESTIMATED_COST

connected == publicKey # NoKey

isFormValid ==
    /\ ErrorKeys(validateForm(form, imageFile)) = {}
    /\ Trim(form.name) # <<>>
    /\ Trim(form.symbol) # <<>>

\* disabled attribute of the Create Token button
CreateDisabled_NoLaunching == ~connected \/ ~isFormValid

CreateDisabled == isLaunching \/ ~connected \/ ~isFormValid

\* disabled attribute of the upload button
UploadDisabled ==
    \/ isUploading
    \/ ~imageFile.present
    \/ Trim(form.name) = <<>>
    \/ Trim(form.symbol) = <<>>

NoThrown == [isError |-> FALSE, message |-> ""]

\* toBigIntAmount throws for a non-blank string that is not all digits.
toBigIntAmountThrows(value) ==
    Trim(value) # <<>> /\ ~AllDigits(Trim(value))

\* BigInt(10) ** BigInt(decimals), in decimal digits.
BigPow10(decimals) == <<"1">> \o [i \in 1..decimals |-> "0"]

\* a * p for a BigInt a and a power of ten p, both in decimal digits without
\* leading zeros.
BigMulPow10(a, p) == IF a = <<"0">> THEN a ELSE a \o Tail(p)

\* toBigIntAmount(value, decimals): the BigInt it returns, in decimal digits
\* without leading zeros (<<>> when it throws).
toBigIntAmount_Unscaled(value, decimals) ==
    LET trimmed == Trim(value)
    IN  IF trimmed = <<>> THEN <<"0">>
        ELSE IF ~AllDigits(trimmed) THEN <<>>
        ELSE StripZeros(trimmed)

toBigIntAmount(value, decimals) ==
    LET trimmed == Trim(value)
    IN  IF trimmed = <<>> THEN <<"0">>
        ELSE IF ~AllDigits(trimmed) THEN <<>>
        ELSE BigMulPow10(StripZeros(trimmed), BigPow10(decimals))

\* No metadata transaction has been built.
NoMetadata == [name |-> <<>>, symbol |-> <<>>, uri |-> <<>>]

\* A createToken call: the await it is at, the form and key its closure
\* captured, its mint keypair, the transactions it handed to the wallet, the
\* confirmations that resolved, the value it caught, the amount of its
\* mint-to instruction and the data of its metadata instruction.
NoRun ==
    [pc |-> "idle", form |-> DEFAULT_FORM, key |-> NoKey, mint |-> 0,
     submitted |-> <<>>, confirmed |-> {}, thrown |-> NoThrown, amount |-> <<>>,
     metadata |-> NoMetadata]

NoUpload == [pc |-> "idle", response |-> CHOOSE r \in Responses : TRUE]

\* Keypair.generate(): a keypair that is neither the mint on display nor the
\* mint of the previous run.
GenerateKeypair_Reuse == IF run.mint # 0 THEN run.mint ELSE 1

GenerateKeypair == CHOOSE m \in Mints : m \notin {mintAddress, run.mint}

InitPage ==
    /\ publicKey = NoKey
    /\ form = DEFAULT_FORM
    /\ formErrors = NoErrors
    /\ status = ""
    /\ statusType = "info"
    /\ mintAddress = 0
    /\ tokenAccount = 0
    /\ isLaunching = FALSE
    /\ imageFile = NoFile
    /\ isUploading = FALSE
    /\ currentStep = 0
    /\ walletBalance = Null
    /\ run = NoRun
    /\ upload = NoUpload
    /\ reads = {}
    /\ subscribed = FALSE

\* setStatusMessage
setStatusMessage(message, type) ==
    /\ status' = message
    /\ statusType' = type

\* ---------------------------------------------------------- form inputs

RECURSIVE DigitsOnly(_)
\* value.replace(/\D/g, "")
DigitsOnly(s) ==
    IF s = <<>> THEN <<>>
    ELSE IF IsDigit(Head(s)) THEN <<Head(s)>> \o DigitsOnly(Tail(s))
    ELSE DigitsOnly(Tail(s))

\* The value an input's onChange hands to updateForm.
InputValue(field, text) ==
    CASE field = "symbol" -> ToUpperCase(text)
      [] field = "supply" -> DigitsOnly(text)
      [] OTHER -> text

\* updateForm(field)(value), called by an input's onChange, for the texts
\* of `typed`
updateFormWith(typed) ==
    \E t \in typed :
        LET field == t[1]
            value == InputValue(field, t[2])
        IN  /\ form' = [form EXCEPT ![field] = value]
            /\ formErrors' =
                   IF field \in Range(ErrorFields) /\ formErrors[field] # Undefined
                   THEN [formErrors EXCEPT ![field] = Undefined]
                   ELSE formErrors
            /\ UNCHANGED <<publicKey, status, statusType, mintAddress, tokenAccount,
                           isLaunching, imageFile, isUploading, currentStep,
                           walletBalance, run, upload, reads, subscribed>>

updateForm == updateFormWith(Typed)

\* handleImageChange(file); the preview data URL is display only.
handleImageChange ==
    \E file \in Files \cup {NoFile} :
        /\ imageFile' = file
        /\ formErrors' =
               [formErrors EXCEPT !["image"] =
                   IF ~file.present THEN Undefined
                   ELSE IF file.size > MAX_IMAGE_SIZE_BYTES THEN "Image must be 5MB or less"
                   ELSE IF file.type \notin ValidTypes
                   THEN "Image must be JPEG, PNG, GIF, or WebP"
                   ELSE Undefined]
        /\ UNCHANGED <<publicKey, form, status, statusType, mintAddress, tokenAccount,
                       isLaunching, isUploading, currentStep, walletBalance, run,
                       upload, reads, subscribed>>

\* --------------------------------------------- validateForm on any form

\* Texts for the name field.
Names ==
    { <<>>, <<" ">>, Tok, <<" ", "a">>, <<"a", " ", "b">>, <<"a", "-", "b", "_", "1">>,
      [i \in 1..MAX_NAME_LENGTH |-> "x"], [i \in 1..(MAX_NAME_LENGTH + 1) |-> "x"],
      <<"a", "!">>, <<"a", "\t", "b">>, <<"a", NoBreakSpace, "b">>, <<SmallEAcute>> }

\* Texts for the symbol field.
Symbols ==
    { <<>>, <<" ">>, Sym, <<"t", "k">>, <<"A", "1">>,
      [i \in 1..MAX_SYMBOL_LENGTH |-> "X"], [i \in 1..(MAX_SYMBOL_LENGTH + 1) |-> "X"],
      <<"T", "-">>, <<"T", " ">>, <<SmallEAcute>>, <<DotlessI>> }

\* Texts for the decimals field.
DecimalsTexts ==
    { <<"9">>, <<"0">>, <<"6">>, <<>>, <<" ">>, <<"1", ".", "5">>, <<"1", "0">>,
      <<"-", "1">>, <<"a">> }

\* Texts for the supply field.
Supplies ==
    { <<>>, <<" ">>, <<"1">>, <<"0">>, <<"0", "0">>, <<"0", "7">>, DefaultSupply, U64_MAX,
      <<"1","8","4","4","6","7","4","4","0","7","3","7","0","9","5","5","1","6","1","6">>,
      <<"1", ".", "5">>, <<"-", "1">>, <<"1", "e", "3">>, <<" ", "5", " ">> }

\* A page holding any form: the state after the user has filled the four
\* fields.
InitForm ==
    /\ publicKey = NoKey
    /\ form \in {[DEFAULT_FORM EXCEPT !.name = n, !.symbol = y, !.decimals = d, !.supply = u] :
                    n \in Names, y \in Symbols, d \in DecimalsTexts, u \in Supplies}
    /\ formErrors = NoErrors
    /\ status = ""
    /\ statusType = "info"
    /\ mintAddress = 0
    /\ tokenAccount = 0
    /\ isLaunching = FALSE
    /\ imageFile = NoFile
    /\ isUploading = FALSE
    /\ currentStep = 0
    /\ walletBalance = Null
    /\ run = NoRun
    /\ upload = NoUpload
    /\ reads = {}
    /\ subscribed = FALSE

\* The validation of createToken: validateForm on the form, and when it
\* finds errors they are displayed and the first one becomes the status.
ValidateForm ==
    LET errors == validateForm(form, imageFile)
    IN  /\ ErrorKeys(errors) # {}
        /\ formErrors' = errors
        /\ setStatusMessage(FirstError(errors), "error")
        /\ UNCHANGED <<publicKey, form, mintAddress, tokenAccount, isLaunching,
                       imageFile, isUploading, currentStep, walletBalance, run,
                       upload, reads, subscribed>>

\* The amount of the mint-to instruction of createToken, computed for the
\* form's supply and decimals; a throw ends in the catch block.
MintToAmount ==
    LET decimals == Number(form.decimals)
    IN  /\ run.pc = "idle"
        /\ ~decimals.nan /\ decimals.int /\ decimals.val \in 0..9
        /\ IF toBigIntAmountThrows(form.supply)
           THEN /\ run' = [run EXCEPT !.pc = "failed",
                                      !.thrown = [isError |-> TRUE,
                                                  message |-> "Only whole numbers are supported for supply."]]
                /\ setStatusMessage("Only whole numbers are supported for supply.", "error")
           ELSE /\ run' = [run EXCEPT !.pc = "done",
                                      !.amount = toBigIntAmount(form.supply, decimals.val)]
                /\ UNCHANGED <<status, statusType>>
        /\ UNCHANGED <<publicKey, form, formErrors, mintAddress, tokenAccount,
                       isLaunching, imageFile, isUploading, currentStep,
                       walletBalance, upload, reads, subscribed>>

\* ------------------------------------------------------ balance observer

\* An updateBalance or refreshBalance call in flight: the key it reads, the
\* isMounted flag of the effect run that started it, the await it is at
\* ("info": getAccountInfo; "bal1": getBalance after a null account; "bal2":
\* the fallback getBalance of the catch block; "refresh": refreshBalance).
\* A subscription whose removal was requested and that may still deliver a
\* callback is kept the same way, at stage "sub".
Read(key, stage) == [key |-> key, mounted |-> TRUE, stage |-> stage]

\* updateBalance and refreshBalance calls in flight
Polls(rs) == {r \in rs : r.stage # "sub"}

\* The effect's cleanup: isMounted = false, clearInterval,
\* removeAccountChangeListener (when a subscription was established).
Cleanup_StillMounted(rs) ==
    rs \cup (IF subscribed THEN {Read(publicKey, "sub")} ELSE {})

Cleanup(rs) ==
    {IF r.stage = "refresh" THEN r ELSE [r EXCEPT !.mounted = FALSE] : r \in rs}
    \cup (IF subscribed THEN {[Read(publicKey, "sub") EXCEPT !.mounted = FALSE]} ELSE {})

\* The wallet connects: the balance effect runs for the new key.
WalletConnect ==
    \E k \in Wallets, subscribes \in BOOLEAN :
        /\ publicKey = NoKey
        /\ Cardinality(Polls(reads)) < MaxReads
        /\ publicKey' = k
        /\ reads' = reads \cup {Read(k, "info")}
        /\ subscribed' = subscribes
        /\ UNCHANGED <<form, formErrors, status, statusType, mintAddress, tokenAccount,
                       isLaunching, imageFile, isUploading, currentStep,
                       walletBalance, run, upload>>

\* The wallet disconnects: the cleanup runs, then the effect with no key.
WalletDisconnect ==
    /\ publicKey # NoKey
    /\ publicKey' = NoKey
    /\ reads' = Cleanup(reads)
    /\ subscribed' = FALSE
    /\ walletBalance' = Null
    /\ UNCHANGED <<form, formErrors, status, statusType, mintAddress, tokenAccount,
                   isLaunching, imageFile, isUploading, currentStep, run, upload>>

\* The wallet switches to another account: the cleanup runs, then the effect
\* for the new key (which leaves the displayed balance as it is).
WalletChange ==
    \E k \in Accounts, subscribes \in BOOLEAN :
        /\ publicKey \notin {NoKey, k}
        /\ Cardinality(Polls(reads)) < MaxReads
        /\ publicKey' = k
        /\ reads' = Cleanup(reads) \cup {Read(k, "info")}
        /\ subscribed' = subscribes
        /\ UNCHANGED <<form, formErrors, status, statusType, mintAddress, tokenAccount,
                       isLaunching, imageFile, isUploading, currentStep,
                       walletBalance, run, upload>>

\* setInterval(updateBalance, 5000) fires.
PollTick ==
    /\ publicKey # NoKey
    /\ Cardinality(Polls(reads)) < MaxReads
    /\ reads' = reads \cup {Read(publicKey, "info")}
    /\ UNCHANGED <<publicKey, form, formErrors, status, statusType, mintAddress,
                   tokenAccount, isLaunching, imageFile, isUploading, currentStep,
                   walletBalance, run, upload, subscribed>>

\* updateBalance: connection.getAccountInfo settles.
AccountInfoSettled ==
    \E r \in reads, outcome \in {"account", "null", "throw"}, lamports \in Lamports :
        /\ r.stage = "info"
        /\ IF ~r.mounted
           THEN reads' = reads \ {r} /\ UNCHANGED walletBalance
           ELSE CASE outcome = "account" ->
                       /\ walletBalance' = lamports
                       /\ reads' = reads \ {r}
                  [] outcome = "null" ->
                       /\ reads' = (reads \ {r}) \cup {[r EXCEPT !.stage = "bal1"]}
                       /\ UNCHANGED walletBalance
                  [] outcome = "throw" ->
                       /\ reads' = (reads \ {r}) \cup {[r EXCEPT !.stage = "bal2"]}
                       /\ UNCHANGED walletBalance
        /\ UNCHANGED <<publicKey, form, formErrors, status, statusType, mintAddress,
                       tokenAccount, isLaunching, imageFile, isUploading, currentStep,
                       run, upload, subscribed>>

\* updateBalance / refreshBalance: connection.getBalance settles.
GetBalanceSettled ==
    \E r \in reads, ok \in BOOLEAN, lamports \in Lamports :
        /\ r.stage \in {"bal1", "bal2", "refresh"}
        /\ IF ok
           THEN walletBalance' = lamports /\ reads' = reads \ {r}
           ELSE CASE r.stage = "bal1" ->
                       /\ reads' = (reads \ {r}) \cup
                              (IF r.mounted THEN {[r EXCEPT !.stage = "bal2"]} ELSE {})
                       /\ UNCHANGED walletBalance
                  [] r.stage = "bal2" ->
                       /\ walletBalance' = 0
                       /\ reads' = reads \ {r}
                  [] r.stage = "refresh" ->
                       /\ reads' = reads \ {r}
                       /\ UNCHANGED walletBalance
        /\ UNCHANGED <<publicKey, form, formErrors, status, statusType, mintAddress,
                       tokenAccount, isLaunching, imageFile, isUploading, currentStep,
                       run, upload, subscribed>>

\* The onAccountChange callback of the live subscription.
AccountChanged ==
    \E lamports \in Lamports :
        /\ subscribed
        /\ walletBalance' = lamports
        /\ UNCHANGED <<publicKey, form, formErrors, status, statusType, mintAddress,
                       tokenAccount, isLaunching, imageFile, isUploading, currentStep,
                       run, upload, reads, subscribed>>

\* The onAccountChange callback of a subscription whose effect was cleaned
\* up, delivered before the removal took effect.
LateAccountChange ==
    \E r \in reads, lamports \in Lamports :
        /\ r.stage = "sub"
        /\ IF r.mounted THEN walletBalance' = lamports ELSE UNCHANGED walletBalance
        /\ reads' = reads \ {r}
        /\ UNCHANGED <<publicKey, form, formErrors, status, statusType, mintAddress,
                       tokenAccount, isLaunching, imageFile, isUploading, currentStep,
                       run, upload, subscribed>>

\* ---------------------------------------------------------- createToken

\* The awaits of createToken, in program order.
Awaits == {"rent", "ata", "blockhash", "sendMint", "confirmMint",
           "sendMeta", "confirmMeta", "sendRevoke", "confirmRevoke"}

\* if (form.metadataUrl.trim()), on the form the run captured
MetadataPresent_Always(f) == TRUE

MetadataPresent(f) == Trim(f.metadataUrl) # <<>>

\* catch (error) { ... } finally { setIsLaunching(false) }, without the reset
\* of currentStep
Catch_NoReset(e) ==
    /\ setStatusMessage(IF e.isError THEN e.message
                        ELSE "Token creation failed. Please try again.", "error")
    /\ isLaunching' = FALSE
    /\ run' = [run EXCEPT !.pc = "failed", !.thrown = e]
    /\ UNCHANGED currentStep

\* catch (error) { ... } without the finally block
Catch_NoFinally(e) ==
    /\ setStatusMessage(IF e.isError THEN e.message
                        ELSE "Token creation failed. Please try again.", "error")
    /\ currentStep' = 0
    /\ run' = [run EXCEPT !.pc = "failed", !.thrown = e]
    /\ UNCHANGED isLaunching

\* catch (error) { ... } finally { setIsLaunching(false) }
Catch(e) ==
    /\ setStatusMessage(IF e.isError THEN e.message
                        ELSE "Token creation failed. Please try again.", "error")
    /\ currentStep' = 0
    /\ isLaunching' = FALSE
    /\ run' = [run EXCEPT !.pc = "failed", !.thrown = e]

\* sendTransaction(tx, connection) is called for the transaction `kind`.
Submit(kind, pc) ==
    run' = [run EXCEPT !.pc = pc, !.submitted = Append(@, kind)]

\* currentStep 4: build the revoke transaction and hand it to the wallet.
StartRevoke_StepThree(confirmedKind) ==
    /\ currentStep' = 3
    /\ setStatusMessage("Step 4/4: Revoking mint and freeze authorities...", "info")
    /\ run' = [run EXCEPT !.pc = "sendRevoke",
                          !.confirmed = @ \cup {confirmedKind},
                          !.submitted = Append(@, "revoke")]

StartRevoke(confirmedKind) ==
    /\ currentStep' = 4
    /\ setStatusMessage("Step 4/4: Revoking mint and freeze authorities...", "info")
    /\ run' = [run EXCEPT !.pc = "sendRevoke",
                          !.confirmed = @ \cup {confirmedKind},
                          !.submitted = Append(@, "revoke")]

\* The Create Token button is clicked: the gates, then the synchronous part
\* of createToken up to its first await.
createToken ==
    /\ ~CreateDisabled
    /\ LET errors == validateForm(form, imageFile)
       IN  IF publicKey = NoKey
           THEN /\ setStatusMessage("Please connect your Phantom wallet first.", "error")
                /\ UNCHANGED <<formErrors, isLaunching, currentStep, run>>
           ELSE IF ErrorKeys(errors) # {}
           THEN /\ formErrors' = errors
                /\ setStatusMessage(FirstError(errors), "error")
                /\ UNCHANGED <<isLaunching, currentStep, run>>
           ELSE IF InsufficientBalance(walletBalance)
           THEN /\ setStatusMessage("Insufficient balance.", "error")
                /\ UNCHANGED <<formErrors, isLaunching, currentStep, run>>
           ELSE /\ isLaunching' = TRUE
                /\ currentStep' = 1
                /\ setStatusMessage("Step 1/4: Creating mint account...", "info")
                /\ run' = [pc |-> "rent", form |-> form, key |-> publicKey,
                           mint |-> GenerateKeypair, submitted |-> <<>>,
                           confirmed |-> {}, thrown |-> NoThrown, amount |-> <<>>,
                           metadata |-> NoMetadata]
                /\ UNCHANGED formErrors
    /\ UNCHANGED <<publicKey, form, mintAddress, tokenAccount, imageFile, isUploading,
                   walletBalance, upload, reads, subscribed>>

\* getMinimumBalanceForRentExemption resolves.
RentResolved ==
    /\ run.pc = "rent"
    /\ run' = [run EXCEPT !.pc = "ata"]
    /\ UNCHANGED <<publicKey, form, formErrors, status, statusType, mintAddress,
                   tokenAccount, isLaunching, imageFile, isUploading, currentStep,
                   walletBalance, upload, reads, subscribed>>

\* getAssociatedTokenAddress resolves: the mint transaction is built
\* (toBigIntAmount may throw), currentStep 2, getLatestBlockhash is called.
AtaResolved ==
    /\ run.pc = "ata"
    /\ IF toBigIntAmountThrows(run.form.supply)
       THEN Catch([isError |-> TRUE,
                   message |-> "Only whole numbers are supported for supply."])
       ELSE /\ currentStep' = 2
            /\ setStatusMessage("Step 2/4: Please sign the transaction in your wallet...",
                                "info")
            /\ run' = [run EXCEPT !.pc = "blockhash",
                                  !.amount = toBigIntAmount(run.form.supply,
                                                 Number(run.form.decimals).val)]
            /\ UNCHANGED isLaunching
    /\ UNCHANGED <<publicKey, form, formErrors, mintAddress, tokenAccount, imageFile,
                   isUploading, walletBalance, upload, reads, subscribed>>

\* getLatestBlockhash resolves: sendTransaction(createMintTx) is called.
BlockhashResolved ==
    /\ run.pc = "blockhash"
    /\ Submit("mint", "sendMint")
    /\ UNCHANGED <<publicKey, form, formErrors, status, statusType, mintAddress,
                   tokenAccount, isLaunching, imageFile, isUploading, currentStep,
                   walletBalance, upload, reads, subscribed>>

\* sendTransaction(createMintTx) resolves: confirmTransaction is called.
MintSent ==
    /\ run.pc = "sendMint"
    /\ setStatusMessage("Step 2/4: Confirming transaction...", "info")
    /\ run' = [run EXCEPT !.pc = "confirmMint"]
    /\ UNCHANGED <<publicKey, form, formErrors, mintAddress, tokenAccount, isLaunching,
                   imageFile, isUploading, currentStep, walletBalance, upload, reads,
                   subscribed>>

\* The arguments of createCreateMetadataAccountV3Instruction, built from the
\* form the run captured.
createMetadataAccountArgsV3(f) ==
    [data |-> [name |-> Trim(f.name),
               symbol |-> ToUpperCase(Trim(f.symbol)),
               uri |-> Trim(f.metadataUrl)],
     isMutable |-> FALSE]

\* The metadata step decided and built from the form on display when the
\* confirmation arrives instead of the form the run captured.
MintConfirmed_LiveForm ==
    /\ run.pc = "confirmMint"
    /\ IF MetadataPresent(form)
       THEN /\ currentStep' = 3
            /\ setStatusMessage("Step 3/4: Creating on-chain metadata...", "info")
            /\ run' = [run EXCEPT !.pc = "sendMeta",
                                  !.confirmed = @ \cup {"mint"},
                                  !.submitted = Append(@, "metadata"),
                                  !.metadata = createMetadataAccountArgsV3(form).data]
       ELSE StartRevoke("mint")
    /\ UNCHANGED <<publicKey, form, formErrors, mintAddress, tokenAccount, isLaunching,
                   imageFile, isUploading, walletBalance, upload, reads, subscribed>>

\* The mint transaction is confirmed: the metadata step if the captured form
\* has a metadata URL, else the revoke step.
MintConfirmed ==
    /\ run.pc = "confirmMint"
    /\ IF MetadataPresent(run.form)
       THEN /\ currentStep' = 3
            /\ setStatusMessage("Step 3/4: Creating on-chain metadata...", "info")
            /\ run' = [run EXCEPT !.pc = "sendMeta",
                                  !.confirmed = @ \cup {"mint"},
                                  !.submitted = Append(@, "metadata"),
                                  !.metadata = createMetadataAccountArgsV3(run.form).data]
       ELSE StartRevoke("mint")
    /\ UNCHANGED <<publicKey, form, formErrors, mintAddress, tokenAccount, isLaunching,
                   imageFile, isUploading, walletBalance, upload, reads, subscribed>>

\* sendTransaction(metadataTx) resolves and the revoke transaction is handed
\* to the wallet at once, without awaiting the confirmation.
MetadataSent_RevokesAtOnce ==
    /\ run.pc = "sendMeta"
    /\ currentStep' = 4
    /\ setStatusMessage("Step 4/4: Revoking mint and freeze authorities...", "info")
    /\ run' = [run EXCEPT !.pc = "sendRevoke", !.submitted = Append(@, "revoke")]
    /\ UNCHANGED <<publicKey, form, formErrors, mintAddress, tokenAccount, isLaunching,
                   imageFile, isUploading, walletBalance, upload, reads, subscribed>>

\* sendTransaction(metadataTx) resolves: confirmTransaction is called.
MetadataSent ==
    /\ run.pc = "sendMeta"
    /\ run' = [run EXCEPT !.pc = "confirmMeta"]
    /\ UNCHANGED <<publicKey, form, formErrors, status, statusType, mintAddress,
                   tokenAccount, isLaunching, imageFile, isUploading, currentStep,
                   walletBalance, upload, reads, subscribed>>

\* The metadata transaction is confirmed: the revoke step.
MetadataConfirmed ==
    /\ run.pc = "confirmMeta"
    /\ StartRevoke("metadata")
    /\ UNCHANGED <<publicKey, form, formErrors, mintAddress, tokenAccount, isLaunching,
                   imageFile, isUploading, walletBalance, upload, reads, subscribed>>

\* sendTransaction(revokeTx) resolves: confirmTransaction is called.
RevokeSent ==
    /\ run.pc = "sendRevoke"
    /\ run' = [run EXCEPT !.pc = "confirmRevoke"]
    /\ UNCHANGED <<publicKey, form, formErrors, status, statusType, mintAddress,
                   tokenAccount, isLaunching, imageFile, isUploading, currentStep,
                   walletBalance, upload, reads, subscribed>>

\* The result is recorded once sendTransaction(revokeTx) has resolved,
\* without awaiting the confirmation.
RevokeConfirmed_Unconfirmed ==
    /\ run.pc = "sendRevoke"
    /\ mintAddress' = run.mint
    /\ tokenAccount' = run.mint
    /\ currentStep' = 5
    /\ setStatusMessage("Token created successfully! Mint and freeze authorities have been revoked.",
                        "success")
    /\ reads' = reads \cup {Read(run.key, "refresh")}
    /\ isLaunching' = FALSE
    /\ run' = [run EXCEPT !.pc = "done"]
    /\ UNCHANGED <<publicKey, form, formErrors, imageFile, isUploading, walletBalance,
                   upload, subscribed>>

\* The revoke transaction is confirmed: the result is recorded,
\* refreshBalance() is called, finally runs.
RevokeConfirmed ==
    /\ run.pc = "confirmRevoke"
    /\ mintAddress' = run.mint
    /\ tokenAccount' = run.mint
    /\ currentStep' = 5
    /\ setStatusMessage("Token created successfully! Mint and freeze authorities have been revoked.",
                        "success")
    /\ reads' = reads \cup {Read(run.key, "refresh")}
    /\ isLaunching' = FALSE
    /\ run' = [run EXCEPT !.pc = "done", !.confirmed = @ \cup {"revoke"}]
    /\ UNCHANGED <<publicKey, form, formErrors, imageFile, isUploading, walletBalance,
                   upload, subscribed>>

\* An awaited call of createToken rejects (an RPC error, the user dismissing
\* the wallet prompt, a failed confirmation).
AwaitRejected_ClearsResult ==
    \E e \in Thrown :
        /\ run.pc \in Awaits
        /\ Catch(e)
        /\ mintAddress' = 0
        /\ tokenAccount' = 0
        /\ UNCHANGED <<publicKey, form, formErrors, imageFile, isUploading,
                       walletBalance, upload, reads, subscribed>>

AwaitRejected ==
    \E e \in Thrown :
        /\ run.pc \in Awaits
        /\ Catch(e)
        /\ UNCHANGED <<publicKey, form, formErrors, mintAddress, tokenAccount,
                       imageFile, isUploading, walletBalance, upload, reads,
                       subscribed>>

\* -------------------------------------------------------- uploadMetadata

\* The upload button is clicked: the guards, then the request is sent.
uploadMetadata ==
    /\ ~UploadDisabled
    /\ LET errors == validateForm(form, imageFile)
       IN  IF ~imageFile.present
           THEN /\ setStatusMessage("Please upload an image first.", "error")
                /\ UNCHANGED <<formErrors, isUploading, upload>>
           ELSE IF Trim(form.name) = <<>> \/ Trim(form.symbol) = <<>>
           THEN /\ setStatusMessage("Please fill in token name and symbol before uploading metadata.",
                                    "error")
                /\ UNCHANGED <<formErrors, isUploading, upload>>
           ELSE IF errors["image"] # Undefined
           THEN /\ formErrors' = [formErrors EXCEPT !["image"] = errors["image"]]
                /\ setStatusMessage(errors["image"], "error")
                /\ UNCHANGED <<isUploading, upload>>
           ELSE /\ isUploading' = TRUE
                /\ setStatusMessage("Uploading image and metadata to IPFS...", "info")
                /\ upload' = [upload EXCEPT !.pc = "fetch"]
                /\ UNCHANGED formErrors
    /\ UNCHANGED <<publicKey, form, mintAddress, tokenAccount, isLaunching, imageFile,
                   currentStep, walletBalance, run, reads, subscribed>>

\* catch / finally of uploadMetadata
UploadFailed_ClearsUrl(message) ==
    /\ setStatusMessage(message, "error")
    /\ isUploading' = FALSE
    /\ form' = [form EXCEPT !.metadataUrl = <<>>]

UploadFailed(message) ==
    /\ setStatusMessage(message, "error")
    /\ isUploading' = FALSE
    /\ UNCHANGED form

\* fetch("/api/upload") resolves with a response: its body is read next.
UploadResponded ==
    \E r \in Responses :
        /\ upload.pc = "fetch"
        /\ upload' = [pc |-> IF r.ok THEN "okJson" ELSE "errJson", response |-> r]
        /\ UNCHANGED <<publicKey, form, formErrors, status, statusType, mintAddress,
                       tokenAccount, isLaunching, imageFile, isUploading, currentStep,
                       walletBalance, run, reads, subscribed>>

\* fetch("/api/upload") rejects.
UploadRejected ==
    /\ upload.pc = "fetch"
    /\ UploadFailed("Failed to fetch")
    /\ upload' = [upload EXCEPT !.pc = "idle"]
    /\ UNCHANGED <<publicKey, formErrors, mintAddress, tokenAccount, isLaunching,
                   imageFile, currentStep, walletBalance, run, reads, subscribed>>

\* response.json() settles.
UploadBodyRead ==
    LET r == upload.response
    IN  /\ upload.pc \in {"okJson", "errJson"}
        /\ IF upload.pc = "errJson"
           THEN UploadFailed(IF ~r.parses THEN "Upload failed"
                             ELSE IF r.error # "" THEN r.error
                             ELSE "Failed to upload metadata")
           ELSE IF ~r.parses
           THEN UploadFailed("Unexpected token '<', \"<html>\" is not valid JSON")
           ELSE /\ form' = [form EXCEPT !.metadataUrl = r.metadataUrl]
                /\ setStatusMessage("Metadata uploaded successfully to IPFS!", "success")
                /\ isUploading' = FALSE
        /\ upload' = [upload EXCEPT !.pc = "idle"]
        /\ UNCHANGED <<publicKey, formErrors, mintAddress, tokenAccount, isLaunching,
                       imageFile, currentStep, walletBalance, run, reads, subscribed>>

\* ------------------------------------------------- the /api/upload route

VARIABLES
    env,        \* process.env: PINATA_JWT, PINATA_API_KEY, PINATA_API_SECRET,
                \* NEXT_PUBLIC_SOLANA_NETWORK
    srv,        \* the POST invocation: where it awaits, its request, the image CID
    pinCalls,   \* requests sent to the pinning service by this invocation, in order
    logged,     \* upstream details written with console.error
    response    \* the NextResponse returned for the request

routeVars == <<env, srv, pinCalls, logged, response>>

vars == <<pageVars, routeVars>>

\* An environment variable: unset, or set to a text.
EnvUnset == [defined |-> FALSE, text |-> <<>>]

EnvValues ==
    { EnvUnset,
      [defined |-> TRUE, text |-> <<" ">>],
      [defined |-> TRUE, text |-> <<"k">>] }

\* process.env.X?.trim() is truthy
EnvPresent(v) == v.defined /\ Trim(v.text) # <<>>

Text(n) == [i \in 1..n |-> "x"]

MAX_FILE_SIZE == 5 * 1024 * 1024

ALLOWED_TYPES == {"image/jpeg", "image/png", "image/gif", "image/webp"}

\* The image entry of the multipart body: a File, or not a File (missing, or
\* a text field).
PngFile == [isFile |-> TRUE, size |-> MAX_FILE_SIZE, type |-> "image/png"]

ValidRequest ==
    [parses |-> TRUE, image |-> PngFile, name |-> Tok, symbol |-> <<"t", "k">>,
     description |-> Text(MAX_DESCRIPTION_LENGTH), website |-> <<>>,
     twitter |-> <<>>, telegram |-> <<>>]

\* Values of a link field of the body: none, blanks only, a padded text.
Links == {<<>>, <<" ">>, <<" ", "w">>}

\* Request bodies: the valid one, one per way of failing validation, and
\* every combination of absent and present links.
Requests ==
    { ValidRequest,
      [ValidRequest EXCEPT !.parses = FALSE],
      [ValidRequest EXCEPT !.image = [isFile |-> FALSE, size |-> 0, type |-> ""]],
      [ValidRequest EXCEPT !.image.size = MAX_FILE_SIZE + 1],
      [ValidRequest EXCEPT !.image.type = "image/svg+xml"],
      [ValidRequest EXCEPT !.name = <<" ">>],
      [ValidRequest EXCEPT !.name = Text(MAX_NAME_LENGTH + 1)],
      [ValidRequest EXCEPT !.symbol = <<>>],
      [ValidRequest EXCEPT !.symbol = Text(MAX_SYMBOL_LENGTH + 1)],
      [ValidRequest EXCEPT !.description = Text(MAX_DESCRIPTION_LENGTH + 1)],
      [ValidRequest EXCEPT !.website = <<"w">>, !.telegram = <<"t">>] }
    \cup {[ValidRequest EXCEPT !.website = w, !.twitter = t, !.telegram = g] :
             w \in Links, t \in {<<>>, <<"t">>}, g \in {<<>>, <<"g">>}}

\* Content the pinning service puts in an error body or a non-JSON body.
UpstreamDetails == {"account suspended", "<html>502</html>"}

\* Content identifiers the pinning service returns; "" is no IpfsHash.
Cids == {"", "Qm1"}

\* What a fetch to the pinning service settles with: a rejection, or a
\* response (ok flag, whether the body is JSON, its IpfsHash, its text).
UpstreamOutcomes ==
    {[rejects |-> TRUE, ok |-> FALSE, json |-> FALSE, hash |-> "", text |-> ""]}
    \cup {[rejects |-> FALSE, ok |-> FALSE, json |-> FALSE, hash |-> "", text |-> d] :
             d \in UpstreamDetails}
    \cup {[rejects |-> FALSE, ok |-> TRUE, json |-> FALSE, hash |-> "", text |-> d] :
             d \in UpstreamDetails}
    \cup {[rejects |-> FALSE, ok |-> TRUE, json |-> TRUE, hash |-> h, text |-> ""] :
             h \in Cids}

\* An error message: a text of the program or of the runtime, and the
\* upstream content quoted in it ("" when it quotes none).
Message(text) == [text |-> text, detail |-> ""]

\* The message of the SyntaxError response.json() throws: it quotes the body.
JsonSyntaxError(body) == [text |-> "Unexpected token ... is not valid JSON", detail |-> body]

NoResponse == [status |-> 0, error |-> Message(""), imageUrl |-> <<>>, metadataUrl |-> <<>>]

\* NextResponse.json({ error }, { status })
ErrorResponse(message, code) ==
    [status |-> code, error |-> message, imageUrl |-> <<>>, metadataUrl |-> <<>>]

\* `https://gateway.pinata.cloud/ipfs/${cid}`
GatewayUrl(cid) == <<"https://gateway.pinata.cloud/ipfs/", cid>>

\* !data.IpfsHash
NoIpfsHash_Never(data) == FALSE

NoIpfsHash(data) == data.hash = ""

\* The extensions object of the metadata document: a key for every link that
\* is not empty; the field is deleted when the object has no key.
Extensions_KeepEmpty(website, twitter, telegram) ==
    LET links == [website |-> website, twitter |-> twitter, telegram |-> telegram]
    IN  [present |-> TRUE,
         value |-> [k \in {l \in DOMAIN links : links[l] # <<>>} |-> links[k]]]

Extensions(website, twitter, telegram) ==
    LET links == [website |-> website, twitter |-> twitter, telegram |-> telegram]
        keys  == {l \in DOMAIN links : links[l] # <<>>}
    IN  [present |-> keys # {}, value |-> [k \in keys |-> links[k]]]

\* The metadata document POST builds from the trimmed fields and the image
\* URL.
MetadataDocument(req, imageUrl) ==
    LET website  == Trim(req.website)
        twitter  == Trim(req.twitter)
        telegram == Trim(req.telegram)
    IN  [name |-> Trim(req.name),
         symbol |-> ToUpperCase(Trim(req.symbol)),
         description |-> Trim(req.description),
         image |-> imageUrl,
         files |-> <<[uri |-> imageUrl, type |-> req.image.type]>>,
         category |-> "image",
         external_url |-> [present |-> website # <<>>, value |-> website],
         extensions |-> Extensions(website, twitter, telegram)]

\* getPinataAuthHeaders: the key/secret headers, else the bearer token, else
\* it throws.
getPinataAuthHeaders_PreferJwt ==
    IF EnvPresent(env.jwt)
    THEN [throws |-> FALSE, kind |-> "jwt"]
    ELSE IF EnvPresent(env.apiKey) /\ EnvPresent(env.apiSecret)
    THEN [throws |-> FALSE, kind |-> "apiKey"]
    ELSE [throws |-> TRUE, kind |-> "none"]

getPinataAuthHeaders ==
    IF EnvPresent(env.apiKey) /\ EnvPresent(env.apiSecret)
    THEN [throws |-> FALSE, kind |-> "apiKey"]
    ELSE IF EnvPresent(env.jwt)
    THEN [throws |-> FALSE, kind |-> "jwt"]
    ELSE [throws |-> TRUE, kind |-> "none"]

\* POST: hasJwt || hasApiKey
HasCredentials_NoSecret == EnvPresent(env.jwt) \/ EnvPresent(env.apiKey)

HasCredentials ==
    EnvPresent(env.jwt) \/ (EnvPresent(env.apiKey) /\ EnvPresent(env.apiSecret))

\* The validation of POST on the parsed form: the 400 message, or "" when
\* the request passes.
ValidationError_NoDescription(req) ==
    LET name   == Trim(req.name)
        symbol == Trim(req.symbol)
    IN  IF ~req.image.isFile THEN "Please provide an image file."
        ELSE IF req.image.size > MAX_FILE_SIZE THEN "Image too large. Maximum size is 5MB."
        ELSE IF req.image.type \notin ALLOWED_TYPES
        THEN "Invalid image format. Allowed: JPEG, PNG, GIF, WebP."
        ELSE IF name = <<>> THEN "Token name is required."
        ELSE IF Len(name) > MAX_NAME_LENGTH THEN "Token name must be 32 characters or less."
        ELSE IF symbol = <<>> THEN "Token symbol is required."
        ELSE IF Len(symbol) > MAX_SYMBOL_LENGTH THEN "Symbol must be 10 characters or less."
        ELSE ""

ValidationError(req) ==
    LET name        == Trim(req.name)
        symbol      == Trim(req.symbol)
        description == Trim(req.description)
    IN  IF ~req.image.isFile THEN "Please provide an image file."
        ELSE IF req.image.size > MAX_FILE_SIZE THEN "Image too large. Maximum size is 5MB."
        ELSE IF req.image.type \notin ALLOWED_TYPES
        THEN "Invalid image format. Allowed: JPEG, PNG, GIF, WebP."
        ELSE IF name = <<>> THEN "Token name is required."
        ELSE IF Len(name) > MAX_NAME_LENGTH THEN "Token name must be 32 characters or less."
        ELSE IF symbol = <<>> THEN "Token symbol is required."
        ELSE IF Len(symbol) > MAX_SYMBOL_LENGTH THEN "Symbol must be 10 characters or less."
        ELSE IF Len(description) > MAX_DESCRIPTION_LENGTH
        THEN "Description must be 200 characters or less."
        ELSE ""

NoSrv == [pc |-> "idle", req |-> ValidRequest, imageCid |-> "",
          upstream |-> CHOOSE o \in UpstreamOutcomes : o.rejects]

InitRoute ==
    /\ env \in [jwt : EnvValues, apiKey : EnvValues, apiSecret : EnvValues,
                network : {Undefined}]
    /\ srv = NoSrv
    /\ pinCalls = <<>>
    /\ logged = {}
    /\ response = NoResponse

\* catch (error) of POST: the error's message goes to the client with 500.
PostCatch(message) == ErrorResponse(message, 500)

\* A request arrives: the credential check, then request.formData() is
\* awaited.
POST ==
    \E req \in Requests :
        /\ srv.pc = "idle"
        /\ pinCalls' = <<>>
        /\ logged' = {}
        /\ IF ~HasCredentials
           THEN /\ response' =
                       ErrorResponse(Message("Server configuration error: Missing Pinata credentials."),
                                     500)
                /\ srv' = [srv EXCEPT !.req = req, !.imageCid = ""]
           ELSE /\ response' = NoResponse
                /\ srv' = [srv EXCEPT !.pc = "formData", !.req = req, !.imageCid = ""]
        /\ UNCHANGED <<env, pageVars>>

\* uploadFileToPinata / uploadJsonToPinata up to their fetch: the headers,
\* then the request to the pinning service.
CallPinata(endpoint, pc, body) ==
    IF getPinataAuthHeaders.throws
    THEN /\ response' = PostCatch(Message("No Pinata credentials configured"))
         /\ srv' = [srv EXCEPT !.pc = "idle"]
         /\ UNCHANGED pinCalls
    ELSE /\ pinCalls' = Append(pinCalls, [endpoint |-> endpoint,
                                          auth |-> getPinataAuthHeaders.kind,
                                          body |-> body])
         /\ srv' = [srv EXCEPT !.pc = pc]
         /\ UNCHANGED response

\* request.formData() settles: the fields are validated and the image is
\* sent to the pinning service.
FormDataSettled ==
    /\ srv.pc = "formData"
    /\ IF ~srv.req.parses
       THEN /\ response' = PostCatch(Message("Failed to parse body as FormData."))
            /\ srv' = [srv EXCEPT !.pc = "idle"]
            /\ UNCHANGED pinCalls
       ELSE IF ValidationError(srv.req) # ""
       THEN /\ response' = ErrorResponse(Message(ValidationError(srv.req)), 400)
            /\ srv' = [srv EXCEPT !.pc = "idle"]
            /\ UNCHANGED pinCalls
       ELSE CallPinata("pinFileToIPFS", "filePin", [file |-> srv.req.image])
    /\ UNCHANGED <<env, logged, pageVars>>

\* The fetch to the pinning service settles.
PinFetchSettled ==
    \E o \in UpstreamOutcomes :
        /\ srv.pc \in {"filePin", "jsonPin"}
        /\ IF o.rejects
           THEN /\ response' = PostCatch(Message("fetch failed"))
                /\ srv' = [srv EXCEPT !.pc = "idle"]
           ELSE /\ srv' = [srv EXCEPT !.pc = IF srv.pc = "filePin" THEN "fileBody"
                                             ELSE "jsonBody",
                                      !.upstream = o]
                /\ UNCHANGED response
        /\ UNCHANGED <<env, pinCalls, logged, pageVars>>

\* response.text() (not ok) or response.json() (ok) settles.
PinBodyRead ==
    LET o    == srv.upstream
        file == srv.pc = "fileBody"
    IN  /\ srv.pc \in {"fileBody", "jsonBody"}
        /\ IF ~o.ok
           THEN /\ logged' = logged \cup {o.text}
                /\ response' = PostCatch(Message(IF file THEN "Failed to upload image to IPFS"
                                                 ELSE "Failed to upload metadata to IPFS"))
                /\ srv' = [srv EXCEPT !.pc = "idle"]
                /\ UNCHANGED pinCalls
           ELSE IF ~o.json
           THEN /\ response' = PostCatch(JsonSyntaxError(o.text))
                /\ srv' = [srv EXCEPT !.pc = "idle"]
                /\ UNCHANGED <<pinCalls, logged>>
           ELSE IF NoIpfsHash(o)
           THEN /\ response' = PostCatch(Message("IPFS upload failed - no hash returned"))
                /\ srv' = [srv EXCEPT !.pc = "idle"]
                /\ UNCHANGED <<pinCalls, logged>>
           ELSE IF file
           THEN /\ IF getPinataAuthHeaders.throws
                   THEN /\ response' = PostCatch(Message("No Pinata credentials configured"))
                        /\ srv' = [srv EXCEPT !.pc = "idle", !.imageCid = o.hash]
                        /\ UNCHANGED pinCalls
                   ELSE /\ pinCalls' = Append(pinCalls,
                               [endpoint |-> "pinJSONToIPFS",
                                auth |-> getPinataAuthHeaders.kind,
                                body |-> MetadataDocument(srv.req, GatewayUrl(o.hash))])
                        /\ srv' = [srv EXCEPT !.pc = "jsonPin", !.imageCid = o.hash]
                        /\ UNCHANGED response
                /\ UNCHANGED logged
           ELSE /\ response' = [status |-> 200, error |-> Message(""),
                                imageUrl |-> GatewayUrl(srv.imageCid),
                                metadataUrl |-> GatewayUrl(o.hash)]
                /\ srv' = [srv EXCEPT !.pc = "idle"]
                /\ UNCHANGED <<pinCalls, logged>>
        /\ UNCHANGED <<env, pageVars>>

\* ------------------------------------------------------- specifications

RouteAtRest ==
    /\ env = [jwt |-> EnvUnset, apiKey |-> EnvUnset, apiSecret |-> EnvUnset,
              network |-> Undefined]
    /\ srv = NoSrv
    /\ pinCalls = <<>>
    /\ logged = {}
    /\ response = NoResponse

PngImage == [present |-> TRUE, size |-> MAX_IMAGE_SIZE_BYTES, type |-> "image/png"]

\* The page as uploadMetadata leaves it after a successful upload, before
\* any wallet has connected: name and symbol typed, an image selected, the
\* metadata URL of the response in the form.
AfterUpload ==
    /\ publicKey = NoKey
    /\ form = [DEFAULT_FORM EXCEPT !.name = Tok, !.symbol = Sym, !.metadataUrl = Uri]
    /\ formErrors = NoErrors
    /\ status = "Metadata uploaded successfully to IPFS!"
    /\ statusType = "success"
    /\ mintAddress = 0
    /\ tokenAccount = 0
    /\ isLaunching = FALSE
    /\ imageFile = PngImage
    /\ isUploading = FALSE
    /\ currentStep = 0
    /\ walletBalance = Null
    /\ run = NoRun
    /\ upload = NoUpload
    /\ reads = {}
    /\ subscribed = FALSE

\* The launch: the wallet, the balance observer, the form inputs and
\* createToken, from the freshly loaded page and from the page after a
\* successful upload; the route is at rest.
Init == (InitPage \/ AfterUpload) /\ RouteAtRest

Next ==
    \/ (updateForm /\ UNCHANGED routeVars)
    \/ (WalletConnect /\ UNCHANGED routeVars)
    \/ (WalletDisconnect /\ UNCHANGED routeVars)
    \/ (LateAccountChange /\ UNCHANGED routeVars)
    \/ (PollTick /\ UNCHANGED routeVars)
    \/ (AccountInfoSettled /\ UNCHANGED routeVars)
    \/ (GetBalanceSettled /\ UNCHANGED routeVars)
    \/ (AccountChanged /\ UNCHANGED routeVars)
    \/ (createToken /\ UNCHANGED routeVars)
    \/ (RentResolved /\ UNCHANGED routeVars)
    \/ (AtaResolved /\ UNCHANGED routeVars)
    \/ (BlockhashResolved /\ UNCHANGED routeVars)
    \/ (MintSent /\ UNCHANGED routeVars)
    \/ (MintConfirmed /\ UNCHANGED routeVars)
    \/ (MetadataSent /\ UNCHANGED routeVars)
    \/ (MetadataConfirmed /\ UNCHANGED routeVars)
    \/ (RevokeSent /\ UNCHANGED routeVars)
    \/ (RevokeConfirmed /\ UNCHANGED routeVars)
    \/ (AwaitRejected /\ UNCHANGED routeVars)

Spec == Init /\ [][Next]_vars

\* The route handler, over every environment and request, with the page at
\* rest.
RouteInit == InitPage /\ InitRoute

RouteNext ==
    \/ POST
    \/ FormDataSettled
    \/ PinFetchSettled
    \/ PinBodyRead

RouteSpec == RouteInit /\ [][RouteNext]_vars

\* The page with its two buttons: the form inputs, the image input,
\* uploadMetadata and createToken, from the freshly loaded page; the wallet
\* connects, the balance stays unread (the balance gate lets a null balance
\* pass), and the route is at rest.
PageInit == InitPage /\ RouteAtRest

PageNext ==
    \/ (updateForm /\ UNCHANGED routeVars)
    \/ (handleImageChange /\ UNCHANGED routeVars)
    \/ (WalletConnect /\ UNCHANGED routeVars)
    \/ (uploadMetadata /\ UNCHANGED routeVars)
    \/ (UploadResponded /\ UNCHANGED routeVars)
    \/ (UploadRejected /\ UNCHANGED routeVars)
    \/ (UploadBodyRead /\ UNCHANGED routeVars)
    \/ (createToken /\ UNCHANGED routeVars)
    \/ (RentResolved /\ UNCHANGED routeVars)
    \/ (AtaResolved /\ UNCHANGED routeVars)
    \/ (BlockhashResolved /\ UNCHANGED routeVars)
    \/ (MintSent /\ UNCHANGED routeVars)
    \/ (MintConfirmed /\ UNCHANGED routeVars)
    \/ (MetadataSent /\ UNCHANGED routeVars)
    \/ (MetadataConfirmed /\ UNCHANGED routeVars)
    \/ (RevokeSent /\ UNCHANGED routeVars)
    \/ (RevokeConfirmed /\ UNCHANGED routeVars)
    \/ (AwaitRejected /\ UNCHANGED routeVars)

PageSpec == PageInit /\ [][PageNext]_vars

\* The balance observer alone, from the freshly loaded page: the wallet
\* connects, switches account and disconnects, polls and reads settle,
\* account changes arrive, also after the cleanup.
BalanceInit == InitPage /\ RouteAtRest

BalanceNext ==
    \/ (WalletConnect /\ UNCHANGED routeVars)
    \/ (WalletDisconnect /\ UNCHANGED routeVars)
    \/ (WalletChange /\ UNCHANGED routeVars)
    \/ (PollTick /\ UNCHANGED routeVars)
    \/ (AccountInfoSettled /\ UNCHANGED routeVars)
    \/ (GetBalanceSettled /\ UNCHANGED routeVars)
    \/ (AccountChanged /\ UNCHANGED routeVars)
    \/ (LateAccountChange /\ UNCHANGED routeVars)

BalanceSpec == BalanceInit /\ [][BalanceNext]_vars

\* ------------------------------------------- the network configuration

\* Values of NEXT_PUBLIC_SOLANA_NETWORK: unset, empty, the three clusters and
\* another name.
Networks == {Undefined, "", "devnet", "testnet", "mainnet-beta", "localnet"}

\* getNetwork: the configured cluster, or devnet
getNetwork ==
    IF env.network \in {"mainnet-beta", "testnet", "devnet"}
    THEN env.network
    ELSE "devnet"

\* clusterApiUrl(cluster): the public RPC endpoint of that cluster
clusterApiUrl(cluster) == [rpc |-> "api", cluster |-> cluster]

\* getEndpoint with NEXT_PUBLIC_SOLANA_RPC_URL unset
getEndpoint == clusterApiUrl(getNetwork)

\* solscanUrl: the explorer link of the created mint and its cluster query
\* ("" for none); no link without a mint.
solscanUrl ==
    LET network == IF env.network \in {Undefined, ""} THEN "mainnet-beta"
                   ELSE env.network
        cluster == IF network = "mainnet-beta" THEN "" ELSE network
    IN  IF mintAddress = 0 THEN [token |-> 0, cluster |-> ""]
        ELSE [token |-> mintAddress, cluster |-> cluster]

\* The page ready for a launch under any network setting.
NetworkInit ==
    /\ publicKey \in Wallets
    /\ form = [DEFAULT_FORM EXCEPT !.name = Tok, !.symbol = Sym]
    /\ formErrors = NoErrors
    /\ status = ""
    /\ statusType = "info"
    /\ mintAddress = 0
    /\ tokenAccount = 0
    /\ isLaunching = FALSE
    /\ imageFile = PngImage
    /\ isUploading = FALSE
    /\ currentStep = 0
    /\ walletBalance \in Lamports
    /\ run = NoRun
    /\ upload = NoUpload
    /\ reads = {}
    /\ subscribed = FALSE
    /\ env \in [jwt : {EnvUnset}, apiKey : {EnvUnset}, apiSecret : {EnvUnset},
                network : Networks]
    /\ srv = NoSrv
    /\ pinCalls = <<>>
    /\ logged = {}
    /\ response = NoResponse

\* Launches, whose success puts the explorer link on the page.
NetworkNext ==
    \/ (createToken /\ UNCHANGED routeVars)
    \/ (RentResolved /\ UNCHANGED routeVars)
    \/ (AtaResolved /\ UNCHANGED routeVars)
    \/ (BlockhashResolved /\ UNCHANGED routeVars)
    \/ (MintSent /\ UNCHANGED routeVars)
    \/ (MintConfirmed /\ UNCHANGED routeVars)
    \/ (RevokeSent /\ UNCHANGED routeVars)
    \/ (RevokeConfirmed /\ UNCHANGED routeVars)
    \/ (AwaitRejected /\ UNCHANGED routeVars)

NetworkSpec == NetworkInit /\ [][NetworkNext]_vars

\* What the user types while a run or an upload is in flight.
Edits ==
    { <<"name", <<"x">> >>, <<"symbol", <<"z">> >>, <<"decimals", <<"6">> >>,
      <<"supply", <<"5">> >> }

\* The page ready for a launch: name and symbol typed, an image selected,
\* the wallet connected and its balance read (one lamport above the
\* estimated cost).
EditInit ==
    /\ publicKey \in Wallets
    /\ form = [DEFAULT_FORM EXCEPT !.name = Tok, !.symbol = Sym]
    /\ formErrors = NoErrors
    /\ status = ""
    /\ statusType = "info"
    /\ mintAddress = 0
    /\ tokenAccount = 0
    /\ isLaunching = FALSE
    /\ imageFile = PngImage
    /\ isUploading = FALSE
    /\ currentStep = 0
    /\ walletBalance = TOTAL_ESTIMATED_COST + 1
    /\ run = NoRun
    /\ upload = NoUpload
    /\ reads = {}
    /\ subscribed = FALSE
    /\ RouteAtRest

\* Form edits and uploads while createToken runs.
EditNext ==
    \/ (updateFormWith(Edits) /\ UNCHANGED routeVars)
    \/ (uploadMetadata /\ UNCHANGED routeVars)
    \/ (UploadResponded /\ UNCHANGED routeVars)
    \/ (UploadRejected /\ UNCHANGED routeVars)
    \/ (UploadBodyRead /\ UNCHANGED routeVars)
    \/ (createToken /\ UNCHANGED routeVars)
    \/ (RentResolved /\ UNCHANGED routeVars)
    \/ (AtaResolved /\ UNCHANGED routeVars)
    \/ (BlockhashResolved /\ UNCHANGED routeVars)
    \/ (MintSent /\ UNCHANGED routeVars)
    \/ (MintConfirmed /\ UNCHANGED routeVars)
    \/ (MetadataSent /\ UNCHANGED routeVars)
    \/ (MetadataConfirmed /\ UNCHANGED routeVars)
    \/ (RevokeSent /\ UNCHANGED routeVars)
    \/ (RevokeConfirmed /\ UNCHANGED routeVars)
    \/ (AwaitRejected /\ UNCHANGED routeVars)

EditSpec == EditInit /\ [][EditNext]_vars

\* An awaited call of createToken settles, either way.
RunSettles ==
    \/ RentResolved
    \/ AtaResolved
    \/ BlockhashResolved
    \/ MintSent
    \/ MintConfirmed
    \/ MetadataSent
    \/ MetadataConfirmed
    \/ RevokeSent
    \/ RevokeConfirmed
    \/ AwaitRejected

\* An awaited call of uploadMetadata settles, either way.
UploadSettles ==
    \/ UploadResponded
    \/ UploadRejected
    \/ UploadBodyRead

\* Launches and uploads from the page ready for a launch.
LiveNext ==
    \/ (uploadMetadata /\ UNCHANGED routeVars)
    \/ (createToken /\ UNCHANGED routeVars)
    \/ (RunSettles /\ UNCHANGED routeVars)
    \/ (UploadSettles /\ UNCHANGED routeVars)

\* Every awaited external call eventually resolves or rejects: a pending
\* await of createToken, and one of uploadMetadata, is eventually settled.
LiveSpec ==
    /\ EditInit
    /\ [][LiveNext]_vars
    /\ WF_vars(RunSettles /\ UNCHANGED routeVars)
    /\ WF_vars(UploadSettles /\ UNCHANGED routeVars)

\* validateForm over every combination of the field texts.
FormInit == InitForm /\ RouteAtRest

FormNext ==
    \/ (ValidateForm /\ UNCHANGED routeVars)
    \/ (MintToAmount /\ UNCHANGED routeVars)

FormSpec == FormInit /\ [][FormNext]_vars

\* ------------------------------------------------------------- claims

\* C1: whenever a createToken run has ended (isLaunching is false again) and
\* its mint-creation transaction was confirmed, its revoke transaction has
\* been confirmed too.
C1_MintedImpliesRevoked ==
    (~isLaunching /\ run.pc \in {"done", "failed"} /\ "mint" \in run.confirmed)
        => "revoke" \in run.confirmed

\* C2: when an awaited call of a createToken run rejects, the run ends with
\* statusType "error", the status being the message of the thrown Error (the
\* generic text for a value that is no Error), currentStep 0 and isLaunching
\* false.
C2_FailureEndsInError ==
    [][(run.pc \in Awaits /\ run'.pc = "failed") =>
          /\ statusType' = "error"
          /\ status' = (IF run'.thrown.isError THEN run'.thrown.message
                        ELSE "Token creation failed. Please try again.")
          /\ currentStep' = 0
          /\ isLaunching' = FALSE]_vars

\* A run that reached step 4 through the metadata step has failed with a
\* value that is no Error.
C2_Witness ==
    /\ run.pc = "failed"
    /\ run.submitted = <<"mint", "metadata", "revoke">>
    /\ ~run.thrown.isError
    /\ status = "Token creation failed. Please try again."
    /\ currentStep = 0

\* C3: a run whose captured metadata URL is empty after trimming goes from the
\* confirmed mint transaction straight to step 4 and submits the revoke
\* transaction; it never shows step 3, never submits a metadata transaction,
\* and the skip raises no error.
C3_EmptyUriSkipsMetadata ==
    /\ [](Trim(run.form.metadataUrl) = <<>> =>
             (currentStep # 3 /\ "metadata" \notin Range(run.submitted)))
    /\ [][(/\ Trim(run.form.metadataUrl) = <<>>
           /\ run.pc = "confirmMint"
           /\ run'.pc \notin {"confirmMint", "failed"}) =>
             /\ run'.pc = "sendRevoke"
             /\ currentStep' = 4
             /\ run'.submitted = Append(run.submitted, "revoke")
             /\ statusType' # "error"]_vars

\* A run without a metadata URL has finished: it submitted the mint and the
\* revoke transaction and nothing else.
C3_Witness ==
    /\ run.pc = "done"
    /\ Trim(run.form.metadataUrl) = <<>>
    /\ run.submitted = <<"mint", "revoke">>
    /\ run.confirmed = {"mint", "revoke"}

\* C4: a run starts (isLaunching set, currentStep 1) only with a wallet key,
\* a form and image validateForm accepts, and a balance that is unknown or at
\* least the estimated cost; a click that fails a gate only sets an error
\* status and leaves isLaunching, currentStep and the run alone.
C4_GatesGuardStart ==
    [][/\ (~isLaunching /\ isLaunching') =>
             /\ publicKey # NoKey
             /\ ErrorKeys(validateForm(form, imageFile)) = {}
             /\ (walletBalance = Null \/ walletBalance > TOTAL_ESTIMATED_COST)
             /\ currentStep' = 1
             /\ run'.pc = "rent"
             /\ run'.submitted = <<>>
       /\ (~isLaunching /\ ~isLaunching' /\ status' # status) =>
             /\ statusType' = "error"
             /\ \/ publicKey = NoKey
                \/ ErrorKeys(validateForm(form, imageFile)) # {}
                \/ (walletBalance # Null /\ walletBalance <= TOTAL_ESTIMATED_COST)
             /\ run' = run
             /\ currentStep' = currentStep]_vars

\* A run has started on a balance of exactly one lamport more than the
\* estimated cost.
C4_Witness ==
    /\ isLaunching
    /\ run.pc = "rent"
    /\ currentStep = 1
    /\ walletBalance = TOTAL_ESTIMATED_COST + 1

\* C5: at most one createToken run is in flight: isLaunching is true exactly
\* while the run awaits, and a new run starts only when no run is awaiting.
C5_OneRunInFlight ==
    /\ [](isLaunching <=> run.pc \in Awaits)
    /\ [][(run'.pc = "rent" /\ (run.pc # "rent" \/ run'.mint # run.mint)) =>
             (~isLaunching /\ run.pc \notin Awaits)]_vars

\* A second run is in flight after a first one has finished.
C5_Witness ==
    /\ isLaunching
    /\ run.pc = "sendRevoke"
    /\ mintAddress # 0
    /\ mintAddress # run.mint

\* C6: the mint address, the token account, currentStep 5 and the success
\* status are set, and the balance refresh started, only in the step in which
\* the revoke transaction of the run is confirmed; a run that fails records
\* neither identifier.
C6_RecordedAfterRevoke ==
    [][/\ (\/ mintAddress' # mintAddress
           \/ tokenAccount' # tokenAccount
           \/ (currentStep' = 5 /\ currentStep # 5)
           \/ (statusType' = "success" /\ statusType # "success")
           \/ Cardinality({r \in reads' \ reads : r.stage = "refresh"}) > 0) =>
             /\ run.pc = "confirmRevoke"
             /\ "revoke" \in run'.confirmed
             /\ mintAddress' = run.mint
             /\ tokenAccount' = run.mint
             /\ currentStep' = 5
             /\ statusType' = "success"
             /\ Read(run.key, "refresh") \in reads'
       /\ (run.pc \in Awaits /\ run'.pc = "failed") =>
             (mintAddress' = mintAddress /\ tokenAccount' = tokenAccount)]_vars

\* A run has finished and its mint is on display.
C6_Witness ==
    /\ run.pc = "done"
    /\ mintAddress = run.mint
    /\ tokenAccount = run.mint
    /\ currentStep = 5
    /\ "revoke" \in run.confirmed

\* C7: the step in which a run fails submits nothing, a failed run never
\* moves again, and the only thing that follows it is a whole new run: a new
\* mint, nothing submitted yet, currentStep 1.
C7_NoResumeAfterFailure ==
    [][/\ (run.pc \in Awaits /\ run'.pc = "failed") =>
             (run'.submitted = run.submitted /\ run'.confirmed = run.confirmed)
       /\ (run.pc = "failed" /\ run' # run) =>
             /\ run'.pc = "rent"
             /\ run'.mint # run.mint
             /\ run'.submitted = <<>>
             /\ run'.confirmed = {}
             /\ currentStep' = 1]_vars

\* A run has failed in the metadata step: the revoke transaction was never
\* submitted.
C7_Witness ==
    /\ run.pc = "failed"
    /\ run.submitted = <<"mint", "metadata">>
    /\ run.confirmed = {"mint"}
    /\ ~isLaunching

\* C8: with neither a JWT nor a complete key/secret pair in the environment
\* (blank values count as absent), the handler answers every request with
\* status 500 and the configuration message, and sends nothing to the
\* pinning service.
C8_NoCredentialsIs500 ==
    (/\ (~env.jwt.defined \/ Trim(env.jwt.text) = <<>>)
     /\ \/ (~env.apiKey.defined \/ Trim(env.apiKey.text) = <<>>)
        \/ (~env.apiSecret.defined \/ Trim(env.apiSecret.text) = <<>>)) =>
        /\ pinCalls = <<>>
        /\ srv.pc = "idle"
        /\ \/ response = NoResponse
           \/ response =
                  [status |-> 500,
                   error |-> [text |-> "Server configuration error: Missing Pinata credentials.",
                              detail |-> ""],
                   imageUrl |-> <<>>, metadataUrl |-> <<>>]

\* An API key without a secret and no JWT: a request whose body does not
\* even parse has been answered with 500.
C8_Witness ==
    /\ env.apiKey.defined /\ Trim(env.apiKey.text) # <<>>
    /\ env.apiSecret.defined /\ Trim(env.apiSecret.text) = <<>>
    /\ ~env.jwt.defined
    /\ ~srv.req.parses
    /\ response.status = 500

\* C9: with credentials configured, a parsed request that fails validation
\* (no image file, image over 5MB, image type not allowed, name blank or over
\* 32 characters, symbol blank or over 10, description over 200) is answered
\* with status 400 and an error, and nothing is sent to the pinning service;
\* every other failure is answered with status 500 and an error; status 200
\* is answered only with both URLs.
C9_StatusCodes ==
    LET req     == srv.req
        creds   == \/ (env.jwt.defined /\ Trim(env.jwt.text) # <<>>)
                   \/ /\ env.apiKey.defined /\ Trim(env.apiKey.text) # <<>>
                      /\ env.apiSecret.defined /\ Trim(env.apiSecret.text) # <<>>
        invalid == \/ ~req.image.isFile
                   \/ req.image.size > 5 * 1024 * 1024
                   \/ req.image.type \notin {"image/jpeg", "image/png", "image/gif", "image/webp"}
                   \/ Trim(req.name) = <<>>
                   \/ Len(Trim(req.name)) > 32
                   \/ Trim(req.symbol) = <<>>
                   \/ Len(Trim(req.symbol)) > 10
                   \/ Len(Trim(req.description)) > 200
    IN  creds =>
            /\ (req.parses /\ invalid) =>
                   /\ pinCalls = <<>>
                   /\ srv.pc \in {"idle", "formData"}
                   /\ (srv.pc = "idle" =>
                          (response.status = 400 /\ response.error.text # ""))
            /\ response.status \in {0, 200, 400, 500}
            /\ (response.status = 400) => (req.parses /\ invalid)
            /\ (response.status = 500) => (response.error.text # "")
            /\ (srv.pc = "idle" /\ pinCalls # <<>>) => (response.status \in {200, 500})
            /\ (response.status = 200) =>
                   /\ Len(pinCalls) = 2
                   /\ response.imageUrl # <<>> /\ response.imageUrl[2] # ""
                   /\ response.metadataUrl # <<>> /\ response.metadataUrl[2] # ""

\* With a JWT configured, a request whose only fault is a description of 201
\* characters has been answered with 400.
C9_Witness ==
    /\ env.jwt.defined /\ Trim(env.jwt.text) # <<>>
    /\ Len(srv.req.description) = MAX_DESCRIPTION_LENGTH + 1
    /\ response.status = 400
    /\ pinCalls = <<>>

\* C10: the error message of a response quotes no content of the pinning
\* service.
C10_NoUpstreamContent == response.error.detail = ""

\* C11: the handler answers 200 only when the metadata pin returned an ok
\* response with an IpfsHash after the image pin did; an ok response without
\* an IpfsHash from either call is answered with 500; the metadata pin is
\* requested only after the image pin returned an ok response with an
\* IpfsHash.
C11_SuccessNeedsBothHashes ==
    /\ [](response.status = 200 =>
             /\ Len(pinCalls) = 2
             /\ srv.imageCid # ""
             /\ response.imageUrl = <<"https://gateway.pinata.cloud/ipfs/", srv.imageCid>>
             /\ response.metadataUrl # <<>> /\ response.metadataUrl[2] # "")
    /\ [][
        /\ (response.status # 200 /\ response'.status = 200) =>
              /\ srv.pc = "jsonBody"
              /\ srv.upstream.ok /\ srv.upstream.json /\ srv.upstream.hash # ""
              /\ response'.metadataUrl[2] = srv.upstream.hash
        /\ (/\ srv.pc \in {"fileBody", "jsonBody"}
            /\ srv.upstream.ok /\ srv.upstream.json /\ srv.upstream.hash = ""
            /\ srv'.pc # srv.pc) =>
              /\ response'.status = 500
              /\ response'.error.text = "IPFS upload failed - no hash returned"
              /\ pinCalls' = pinCalls
        /\ (Len(pinCalls') = 2 /\ Len(pinCalls) < 2) =>
              /\ srv.pc = "fileBody"
              /\ srv.upstream.ok /\ srv.upstream.json /\ srv.upstream.hash # ""
              /\ srv'.imageCid = srv.upstream.hash]_vars

\* The metadata pin returned an ok response without an IpfsHash after a
\* successful image pin: the answer is 500.
C11_Witness ==
    /\ Len(pinCalls) = 2
    /\ srv.pc = "idle"
    /\ srv.imageCid # ""
    /\ srv.upstream.ok /\ srv.upstream.json /\ srv.upstream.hash = ""
    /\ response.status = 500

\* C12: the metadata document sent to the pinning service has no extensions
\* field when website, twitter and telegram are all empty after trimming;
\* otherwise it has one, whose keys are exactly the non-empty links, each
\* with its trimmed value.
C12_ExtensionsNonEmptySubset ==
    \A i \in 1..Len(pinCalls) :
        pinCalls[i].endpoint = "pinJSONToIPFS" =>
            LET ext == pinCalls[i].body.extensions
                w   == Trim(srv.req.website)
                t   == Trim(srv.req.twitter)
                g   == Trim(srv.req.telegram)
            IN  /\ ext.present = (w # <<>> \/ t # <<>> \/ g # <<>>)
                /\ ext.present =>
                       (/\ DOMAIN ext.value \subseteq {"website", "twitter", "telegram"}
                        /\ ("website" \in DOMAIN ext.value) = (w # <<>>)
                        /\ ("twitter" \in DOMAIN ext.value) = (t # <<>>)
                        /\ ("telegram" \in DOMAIN ext.value) = (g # <<>>)
                        /\ ((w # <<>>) => (ext.value["website"] = w))
                        /\ ((t # <<>>) => (ext.value["twitter"] = t))
                        /\ ((g # <<>>) => (ext.value["telegram"] = g)))

\* A document was sent for a request with a blank website, a twitter link
\* and no telegram link: its extensions hold the twitter link only.
C12_Witness ==
    /\ Len(pinCalls) = 2
    /\ srv.req.website = <<" ">>
    /\ srv.req.twitter # <<>>
    /\ srv.req.telegram = <<>>
    /\ pinCalls[2].body.extensions.present
    /\ DOMAIN pinCalls[2].body.extensions.value = {"twitter"}

\* C13: an image over 5*1024*1024 bytes or of a type other than JPEG, PNG,
\* GIF and WebP gets an image error from validateForm, and a click on the
\* upload button with such an image selected sends no request and leaves
\* isUploading false.
C13_BadImageNotUploaded ==
    /\ []((/\ imageFile.present
           /\ \/ imageFile.size > 5 * 1024 * 1024
              \/ imageFile.type \notin {"image/jpeg", "image/png", "image/gif", "image/webp"}) =>
             validateForm(form, imageFile)["image"] # Undefined)
    /\ [][(/\ imageFile.present
           /\ \/ imageFile.size > 5 * 1024 * 1024
              \/ imageFile.type \notin {"image/jpeg", "image/png", "image/gif", "image/webp"}
           /\ upload.pc = "idle") =>
             (upload'.pc = "idle" /\ ~isUploading')]_vars

\* The upload button was clicked with an SVG selected: the image error is
\* the status, and nothing was sent.
C13_Witness ==
    /\ imageFile.present
    /\ imageFile.type = "image/svg+xml"
    /\ status = "Image must be JPEG, PNG, GIF, or WebP"
    /\ statusType = "error"
    /\ formErrors["image"] = status
    /\ upload.pc = "idle"
    /\ ~isUploading

\* C14: validateForm gives a name error exactly when the name is empty or
\* blank, longer than 32 characters, or holds a character that is no ASCII
\* letter, digit, space, hyphen or underscore.
C14_NameRule ==
    (validateForm(form, imageFile)["name"] # Undefined) =
        (\/ Trim(form.name) = <<>>
         \/ Len(form.name) > 32
         \/ \E i \in DOMAIN form.name :
               /\ ~IsLetter(form.name[i])
               /\ ~IsDigit(form.name[i])
               /\ form.name[i] \notin {" ", "-", "_"})

C16_DecimalsRule ==
    (validateForm(form, imageFile)["decimals"] = Undefined) =
        (/\ Trim(form.decimals) # <<>>
         /\ ~Number(form.decimals).nan
         /\ Number(form.decimals).int
         /\ Number(form.decimals).val \in 0..9)

\* C17: for a supply of decimal digits and decimals from 0 to 9,
\* toBigIntAmount returns supply * 10^decimals exactly: the digits of the
\* supply followed by as many zeros as decimals (1000000000 with 9 gives
\* 10^18); it returns 0 for a blank supply and throws for a supply holding
\* anything but digits.
C17_ExactAmount ==
    LET t == Trim(form.supply)
        d == Number(form.decimals).val
        a == toBigIntAmount(form.supply, d)
        digits == t # <<>> /\ \A i \in DOMAIN t : IsDigit(t[i])
    IN  (~Number(form.decimals).nan /\ Number(form.decimals).int /\ d \in 0..9) =>
            /\ (t = <<>>) => (a = <<"0">> /\ ~toBigIntAmountThrows(form.supply))
            /\ (t # <<>> /\ ~digits) => toBigIntAmountThrows(form.supply)
            /\ digits =>
                  /\ ~toBigIntAmountThrows(form.supply)
                  /\ a # <<>>
                  /\ (Len(a) > 1) => (a[1] # "0")
                  /\ (Len(t) + d <= 9) => (DecValue(a) = DecValue(t) * 10^d)
                  /\ (\E i \in DOMAIN t : t[i] # "0") =>
                        /\ Len(a) = Len(StripZeros(t)) + d
                        /\ SubSeq(a, 1, Len(a) - d) = StripZeros(t)
                        /\ \A i \in (Len(a) - d + 1)..Len(a) : a[i] = "0"
            /\ (t = <<"1","0","0","0","0","0","0","0","0","0">> /\ d = 9) =>
                  (a = <<"1","0","0","0","0","0","0","0","0","0",
                         "0","0","0","0","0","0","0","0","0">>)
            /\ (run.pc = "done") => (run.amount = a)

\* The amount was computed for the default supply with 9 decimals: it is
\* 10^18.
C17_Witness ==
    /\ run.pc = "done"
    /\ form.supply = DefaultSupply
    /\ form.decimals = <<"9">>
    /\ Len(run.amount) = 19
    /\ run.amount[1] = "1"

\* C18: when the wallet disconnects or switches account, the observer of the
\* previous key is shut down: no poll of it stays mounted and the only new
\* read is the first one of the new key, an established subscription is
\* handed to removal, a poll only ever starts for the connected key, and a
\* callback of a removed subscription leaves the balance alone.  Without a
\* wallet there is no subscription and no mounted poll.
C18_ObserverShutDown ==
    /\ [](publicKey = NoKey =>
             (~subscribed /\ \A r \in reads : r.stage # "refresh" => ~r.mounted))
    /\ [][
        /\ (publicKey # NoKey /\ publicKey' # publicKey) =>
              /\ \A r \in reads' :
                    (r.stage # "refresh" /\ r.mounted) =>
                        (r.key = publicKey' /\ r.stage = "info" /\ publicKey' # NoKey)
              /\ subscribed =>
                    (\E r \in reads' :
                        r.stage = "sub" /\ r.key = publicKey /\ ~r.mounted)
        /\ \A r \in reads' \ reads :
              (r.stage = "info" /\ r.mounted) => (r.key = publicKey' /\ publicKey' # NoKey)
        /\ (\E r \in reads \ reads' : r.stage = "sub") =>
              (walletBalance' = walletBalance)
       ]_vars

\* The wallet switched to the second account and then disconnected while a
\* read and the subscription of that account were still live: both are left
\* unmounted and the balance is cleared.
C18_Witness ==
    /\ publicKey = NoKey
    /\ walletBalance = Null
    /\ \E r \in reads : r.stage = "sub" /\ r.key = "K2" /\ ~r.mounted
    /\ \E r \in reads : r.stage \in {"info", "bal1", "bal2"} /\ r.key = "K2" /\ ~r.mounted

\* C19: the displayed balance is null or a number of lamports that a read of
\* the account reported.
C19_BalanceFromRead == walletBalance = Null \/ walletBalance \in Lamports

\* C20: no upload is in flight while a createToken run is in flight.
C20_UploadAndLaunchExclusive == ~(isUploading /\ isLaunching)

C22_MetadataUrlFromUpload ==
    /\ form.metadataUrl = <<>>
    /\ [][form'.metadataUrl # form.metadataUrl =>
              /\ upload.pc = "okJson"
              /\ upload.response.ok
              /\ upload.response.parses
              /\ form'.metadataUrl = upload.response.metadataUrl]_vars

\* An upload has failed after an earlier one succeeded: the URL of the
\* earlier response is still in the form.
C22_Witness ==
    /\ form.metadataUrl = Uri
    /\ upload.pc = "idle"
    /\ ~isUploading
    /\ statusType = "error"
    /\ status = "Upload failed"

\* C23: every request sent to the pinning service carries the key/secret
\* headers whenever both the key and the secret are configured (whether or
\* not a JWT is configured too), carries the bearer token only when the key
\* or the secret is missing and a JWT is configured, and
\* getPinataAuthHeaders throws exactly when neither is available.
C23_KeyPairPreferred ==
    LET pair == EnvPresent(env.apiKey) /\ EnvPresent(env.apiSecret)
    IN  /\ \A i \in 1..Len(pinCalls) :
              /\ pinCalls[i].auth \in {"apiKey", "jwt"}
              /\ pair => (pinCalls[i].auth = "apiKey")
              /\ (pinCalls[i].auth = "jwt") => (~pair /\ EnvPresent(env.jwt))
        /\ getPinataAuthHeaders.throws = (~pair /\ ~EnvPresent(env.jwt))

\* Key, secret and JWT are all configured and both pin calls of a request
\* have been sent with the key/secret headers.
C23_Witness ==
    /\ EnvPresent(env.jwt)
    /\ EnvPresent(env.apiKey)
    /\ EnvPresent(env.apiSecret)
    /\ Len(pinCalls) = 2
    /\ pinCalls[1].auth = "apiKey"
    /\ pinCalls[2].auth = "apiKey"

\* C24: within one run the transactions are submitted in the order mint,
\* then metadata (only when the captured form has a metadata URI, and then
\* marked immutable), then revoke; each one is submitted only after the
\* confirmation of the one before it has resolved, so the metadata
\* transaction is never submitted after the revocation.
C24_SubmissionOrder ==
    LET s == run.submitted
    IN  /\ s \in { <<>>, <<"mint">>, <<"mint", "metadata">>,
                   <<"mint", "metadata", "revoke">>, <<"mint", "revoke">> }
        /\ ("metadata" \in Range(s)) =>
               /\ MetadataPresent(run.form)
               /\ ~createMetadataAccountArgsV3(run.form).isMutable
        /\ (s = <<"mint", "revoke">>) => ~MetadataPresent(run.form)
        /\ \A i \in 2..Len(s) : s[i-1] \in run.confirmed
        /\ run.confirmed \subseteq Range(s)

\* A run with a metadata URI has submitted all three transactions and is
\* waiting for the wallet to send the revocation.
C24_Witness ==
    /\ run.pc = "sendRevoke"
    /\ run.submitted = <<"mint", "metadata", "revoke">>
    /\ run.confirmed = {"mint", "metadata"}
    /\ isLaunching

\* C25: when validateForm accepts the supply and the decimals of a form, the
\* amount computed for the mint-to instruction is at most 2^64 - 1.
C25_AmountFitsU64 ==
    (/\ run.pc = "done"
     /\ validateForm(form, imageFile)["supply"] = Undefined
     /\ validateForm(form, imageFile)["decimals"] = Undefined) =>
        BigLeq(run.amount, U64_MAX)

\* C26: the displayed balance belongs to the connected wallet: it is null
\* whenever no wallet is connected, and a read that settles after the wallet
\* it was started for has disconnected or changed (its key is not the
\* connected one, or its effect has been cleaned up) leaves the balance as
\* it is.
C26_BalanceOfConnectedWallet ==
    /\ [](publicKey = NoKey => walletBalance = Null)
    /\ [][\A r \in reads \ reads' :
              (r.key # publicKey \/ ~r.mounted) => (walletBalance' = walletBalance)]_vars

\* C27: every step of a run uses the form captured when the run started.
\* The captured form is the form on display at the click and stays what it
\* is while the run is in flight, whatever is typed or uploaded meanwhile;
\* the amount of the mint-to instruction is computed from the captured
\* supply and decimals; the metadata step is taken exactly when the captured
\* form has a metadata URL, and its name, symbol and URI are the captured
\* ones.
C27_RunUsesCapturedForm ==
    [][
        /\ (run.pc \notin Awaits /\ run'.pc \in Awaits) => (run'.form = form)
        /\ (run.pc \in Awaits) => (run'.form = run.form)
        /\ (run.pc = "ata" /\ run'.pc = "blockhash") =>
               (run'.amount = toBigIntAmount(run.form.supply,
                                             Number(run.form.decimals).val))
        /\ (run.pc \in Awaits /\ run.pc # "ata") => (run'.amount = run.amount)
        /\ (run.pc = "confirmMint" /\ run'.pc \in {"sendMeta", "sendRevoke"}) =>
               /\ (run'.pc = "sendMeta") = (Trim(run.form.metadataUrl) # <<>>)
               /\ (run'.pc = "sendRevoke") = (Trim(run.form.metadataUrl) = <<>>)
               /\ (run'.pc = "sendMeta") =>
                      /\ run'.metadata.name = Trim(run.form.name)
                      /\ run'.metadata.symbol = ToUpperCase(Trim(run.form.symbol))
                      /\ run'.metadata.uri = Trim(run.form.metadataUrl)
        /\ (run.pc \in Awaits /\ run.pc # "confirmMint") =>
               (run'.metadata = run.metadata)
    ]_vars

\* A run started without a metadata URL has gone straight to the revoke
\* transaction although every field was edited and an upload stored a
\* metadata URL in the form while the run was in flight.
C27_Witness ==
    /\ run.pc = "sendRevoke"
    /\ run.submitted = <<"mint", "revoke">>
    /\ run.form.metadataUrl = <<>>
    /\ form.metadataUrl = Uri
    /\ form.name # run.form.name
    /\ form.symbol # run.form.symbol
    /\ form.decimals # run.form.decimals
    /\ form.supply # run.form.supply

\* C28: with no custom RPC URL, the cluster the explorer link of a created
\* mint addresses (the main network when the link has no cluster query) is
\* the cluster of the connection endpoint, for every network setting.
C28_ExplorerMatchesEndpoint ==
    (mintAddress # 0) =>
        ((IF solscanUrl.cluster = "" THEN "mainnet-beta" ELSE solscanUrl.cluster)
            = getEndpoint.cluster)

\* C29: currentStep is always in 0..5.  During a run it is 1 up to the mint
\* transaction being built, 2 while that transaction is signed and
\* confirmed, 3 during the metadata step (when there is one), 4 during the
\* revocation, and it only grows while the run is in flight; the run ends
\* with 5 on success and 0 on failure.  Whenever no run is in flight it is 0
\* or 5, and 5 only if the run that finished last succeeded.
C29_StepsInOrder ==
    /\ [](/\ currentStep \in 0..5
          /\ isLaunching = (run.pc \in Awaits)
          /\ (run.pc \in {"rent", "ata"}) => (currentStep = 1)
          /\ (run.pc \in {"blockhash", "sendMint", "confirmMint"}) => (currentStep = 2)
          /\ (run.pc \in {"sendMeta", "confirmMeta"}) => (currentStep = 3)
          /\ (run.pc \in {"sendRevoke", "confirmRevoke"}) => (currentStep = 4)
          /\ (run.pc = "done") => (currentStep = 5)
          /\ (run.pc = "failed") => (currentStep = 0)
          /\ (~isLaunching) => (currentStep \in {0, 5})
          /\ (currentStep = 5) => (run.pc = "done"))
    /\ [][(isLaunching /\ isLaunching' /\ currentStep' # currentStep) =>
              (currentStep' > currentStep)]_vars

\* A run with a metadata step went through the steps 1, 2, 3 and 4 and then
\* failed at the revocation: currentStep is back at 0.
C29_Witness ==
    /\ ~isLaunching
    /\ currentStep = 0
    /\ run.pc = "failed"
    /\ run.submitted = <<"mint", "metadata", "revoke">>

\* C30: when every awaited call eventually settles, every started run
\* eventually ends with isLaunching false, either done (currentStep 5, a
\* success status) or in error (currentStep 0, an error status), and every
\* started upload eventually ends with isUploading false; isLaunching is set
\* only while a run is at an await and isUploading only while an upload is.
C30_OperationsEnd ==
    /\ [](isLaunching = (run.pc \in Awaits))
    /\ [](isUploading = (upload.pc # "idle"))
    /\ (isLaunching ~>
            (/\ ~isLaunching
             /\ \/ (run.pc = "done" /\ currentStep = 5 /\ statusType = "success")
                \/ (run.pc = "failed" /\ currentStep = 0 /\ statusType = "error")))
    /\ (isUploading ~> ~isUploading)

\* A run has ended in error and an upload started during it has ended too:
\* both flags are down.
C30_Witness ==
    /\ run.pc = "failed"
    /\ ~isLaunching
    /\ ~isUploading
    /\ upload.pc = "idle"
    /\ form.metadataUrl = Uri
    /\ run.form.metadataUrl = <<>>

====
